---- MODULE Spec2Model ----
(***************************************************************************)
(* A model of src/src/pgn.rs: the PGN tag decoder (Tag::try_from), the     *)
(* half-move attribution (Move::from), the two passes parse_tags and       *)
(* parse_moves, and their assembly in Pgn::new.                            *)
(*                                                                         *)
(* A Rust string is a sequence of one-character strings, so that every     *)
(* character-level operation of the code (starts_with, ends_with, replace, *)
(* split_once, parse) is computed on characters.  An unwrap() of a None or *)
(* an Err is a panic: it is an outcome of its own, [kind |-> "Panic"],     *)
(* distinct from the Ok and Err values the functions return.               *)
(***************************************************************************)
EXTENDS Integers, Sequences, FiniteSets, TLC

VARIABLES
    pc,          \* "ready" before the operation under study has run, "done" after
    value,       \* the &str handed to Tag::try_from
    tag_result,  \* what Tag::try_from produced for value
    move_value,  \* the (&str, &str) handed to Move::from
    move_result, \* what Move::from produced for move_value
    file_ok,     \* whether File::open(path) succeeds
    lines,       \* the lines of the file, as Pgn::new collects them
    pgn,         \* what Pgn::new produced
    stdout       \* the lines printed by parse_moves

vars ==
    <<pc, value, tag_result, move_value, move_result, file_ok, lines, pgn, stdout>>

(***************************************************************************)
(* Bounds of the model.                                                    *)
(***************************************************************************)
\* longest free-text body of a tag value drawn for Tag::try_from
MaxBody == 2
\* longest move-number text drawn for Move::from
MaxDigits == 5
\* longest file, in lines, drawn freely for Pgn::new
MaxLines == 3

(***************************************************************************)
(* Integer widths of the typed payloads.                                   *)
(***************************************************************************)
U16_MAX == 65535
I16_MAX == 32767
I16_MIN == -32768

(***************************************************************************)
(* The tag keys Tag::try_from matches on, as character sequences.          *)
(***************************************************************************)
K_Event ==
    <<"E","v","e","n","t">>
K_Site ==
    <<"S","i","t","e">>
K_Date ==
    <<"D","a","t","e">>
K_UTCDate ==
    <<"U","T","C","D","a","t","e">>
K_Round ==
    <<"R","o","u","n","d">>
K_White ==
    <<"W","h","i","t","e">>
K_Black ==
    <<"B","l","a","c","k">>
K_Result ==
    <<"R","e","s","u","l","t">>
K_WhiteElo ==
    <<"W","h","i","t","e","E","l","o">>
K_BlackElo ==
    <<"B","l","a","c","k","E","l","o">>
K_ECO ==
    <<"E","C","O">>
K_Annotator ==
    <<"A","n","n","o","t","a","t","o","r">>
K_WhiteRatingDiff ==
    <<"W","h","i","t","e","R","a","t","i","n","g","D","i","f","f">>
K_BlackRatingDiff ==
    <<"B","l","a","c","k","R","a","t","i","n","g","D","i","f","f">>
K_Variant ==
    <<"V","a","r","i","a","n","t">>
K_TimeControl ==
    <<"T","i","m","e","C","o","n","t","r","o","l">>
K_Opening ==
    <<"O","p","e","n","i","n","g">>
K_Termination ==
    <<"T","e","r","m","i","n","a","t","i","o","n">>
K_EndTime ==
    <<"E","n","d","T","i","m","e">>
K_UTCTime ==
    <<"U","T","C","T","i","m","e">>

\* the keys whose payload is the string itself
StringKeys ==
    {K_Event, K_Site, K_Round, K_White, K_Black, K_Result, K_ECO, K_Annotator,
     K_Variant, K_TimeControl, K_Opening, K_Termination}

\* the variant of enum Tag that each matched key builds
VariantOf(key) ==
    CASE key = K_Event -> "Event"
      [] key = K_Site -> "Site"
      [] key = K_Date -> "Date"
      [] key = K_UTCDate -> "UTCDate"
      [] key = K_Round -> "Round"
      [] key = K_White -> "White"
      [] key = K_Black -> "Black"
      [] key = K_Result -> "Result"
      [] key = K_WhiteElo -> "WhiteElo"
      [] key = K_BlackElo -> "BlackElo"
      [] key = K_ECO -> "Eco"
      [] key = K_Annotator -> "Annotator"
      [] key = K_WhiteRatingDiff -> "WhiteRatingDiff"
      [] key = K_BlackRatingDiff -> "BlackRatingDiff"
      [] key = K_Variant -> "Variant"
      [] key = K_TimeControl -> "TimeControl"
      [] key = K_Opening -> "Opening"
      [] key = K_Termination -> "Termination"
      [] key = K_EndTime -> "EndTime"
      [] key = K_UTCTime -> "UTCTime"
      [] OTHER -> "none"

(***************************************************************************)
(* Values of Result<Tag, TagError>, and the panic of an unwrap().  All     *)
(* share one record shape: name is the variant, key and text are strings,  *)
(* nums is the typed payload (date, time or integer).                      *)
(***************************************************************************)
OkTag(variant, text, nums) ==
    [kind |-> "Ok", name |-> variant, key |-> <<>>, text |-> text, nums |-> nums]

NoOpeningSquareBracket ==
    [kind |-> "Err", name |-> "NoOpeningSquareBracket", key |-> <<>>,
     text |-> <<>>, nums |-> <<>>]

NoClosingSquareBracket ==
    [kind |-> "Err", name |-> "NoClosingSquareBracket", key |-> <<>>,
     text |-> <<>>, nums |-> <<>>]

UnknownTag(key, data) ==
    [kind |-> "Err", name |-> "UnknownTag", key |-> key, text |-> data,
     nums |-> <<>>]

Panic ==
    [kind |-> "Panic", name |-> "panic", key |-> <<>>, text |-> <<>>, nums |-> <<>>]

(***************************************************************************)
(* str methods the code calls.                                             *)
(***************************************************************************)
starts_with(s, c) ==
    Len(s) > 0 /\ s[1] = c

ends_with(s, c) ==
    Len(s) > 0 /\ s[Len(s)] = c

\* s.replace(c, ""): every occurrence of c is removed
replace(s, c) ==
    SelectSeq(s, LAMBDA x : x # c)

\* s.split_once(c): the text before and after the first c, or None
split_once(s, c) ==
    IF \E i \in 1..Len(s) : s[i] = c
    THEN LET i == CHOOSE j \in 1..Len(s) : s[j] = c /\ \A k \in 1..(j - 1) : s[k] # c
         IN [some |-> TRUE, before |-> SubSeq(s, 1, i - 1),
             after |-> SubSeq(s, i + 1, Len(s))]
    ELSE [some |-> FALSE, before |-> <<>>, after |-> <<>>]

(***************************************************************************)
(* str::parse::<u16>() and str::parse::<i16>() (lines 99-107 and 126):     *)
(* an optional sign ('-' only for a signed type), then decimal digits      *)
(* only, and the value must fit the type.  No whitespace is skipped.       *)
(***************************************************************************)
Digits ==
    <<"0","1","2","3","4","5","6","7","8","9">>

IsDigit(c) ==
    \E i \in 1..10 : Digits[i] = c

DigitVal(c) ==
    (CHOOSE i \in 1..10 : Digits[i] = c) - 1

RECURSIVE DecimalValue(_, _)
\* the number written by the digit string s, continuing from acc
DecimalValue(s, acc) ==
    IF s = <<>> THEN acc
    ELSE DecimalValue(Tail(s), acc * 10 + DigitVal(Head(s)))

ParseInt(s, signed, min, max) ==
    IF s = <<>> THEN [ok |-> FALSE, val |-> 0]
    ELSE IF s[1] \in {"+", "-"} /\ Len(s) = 1 THEN [ok |-> FALSE, val |-> 0]
    ELSE LET negative == signed /\ s[1] = "-"
             digits == IF s[1] = "+" \/ negative THEN Tail(s) ELSE s
         IN IF \E i \in 1..Len(digits) : ~IsDigit(digits[i])
            THEN [ok |-> FALSE, val |-> 0]
            ELSE LET n == DecimalValue(digits, 0)
                     v == IF negative THEN 0 - n ELSE n
                 IN IF v < min \/ v > max
                    THEN [ok |-> FALSE, val |-> 0]
                    ELSE [ok |-> TRUE, val |-> v]

ParseU16(s) ==
    ParseInt(s, FALSE, 0, U16_MAX)

ParseI16(s) ==
    ParseInt(s, TRUE, I16_MIN, I16_MAX)

(***************************************************************************)
(* NaiveDate::parse_from_str(s, "%Y.%m.%d") and NaiveTime::parse_from_str  *)
(* with "%H:%M:%S %Z" and "%H:%M:%S" (lines 90, 93, 114, 117), after the   *)
(* format rules of chrono: a numeric item skips leading whitespace and     *)
(* reads 1 to width digits (%Y also a sign followed by any number of       *)
(* digits), a literal must match, a space in the format skips whitespace,  *)
(* %Z skips a run of non-whitespace, nothing may be left over, and the     *)
(* fields must name an existing date or time.                              *)
(***************************************************************************)
RECURSIVE trim_start(_)
trim_start(s) ==
    IF s # <<>> /\ Head(s) = " " THEN trim_start(Tail(s)) ELSE s

RECURSIVE SkipNonSpace(_)
SkipNonSpace(s) ==
    IF s # <<>> /\ Head(s) # " " THEN SkipNonSpace(Tail(s)) ELSE s

RECURSIVE DigitRun(_, _)
\* how many of the first width characters of s are leading digits
DigitRun(s, width) ==
    IF width > 0 /\ s # <<>> /\ IsDigit(Head(s))
    THEN 1 + DigitRun(Tail(s), width - 1)
    ELSE 0

\* scan::number(s, 1, width)
ScanNumber(s, width) ==
    LET n == DigitRun(s, width)
    IN IF n = 0 THEN [ok |-> FALSE, val |-> 0, rest |-> s]
       ELSE [ok |-> TRUE, val |-> DecimalValue(SubSeq(s, 1, n), 0),
             rest |-> SubSeq(s, n + 1, Len(s))]

\* a numeric item of the format; signed is TRUE for %Y only
ScanNumeric(s0, width, signed) ==
    LET s == trim_start(s0)
    IN IF signed /\ s # <<>> /\ Head(s) \in {"+", "-"}
       THEN LET r == ScanNumber(Tail(s), Len(s))
            IN [ok |-> r.ok, val |-> IF Head(s) = "-" THEN 0 - r.val ELSE r.val,
                rest |-> r.rest]
       ELSE ScanNumber(s, width)

\* a literal character of the format
ScanLiteral(s, c) ==
    IF s # <<>> /\ Head(s) = c THEN [ok |-> TRUE, rest |-> Tail(s)]
    ELSE [ok |-> FALSE, rest |-> s]

IsLeapYear(y) ==
    (y % 4 = 0 /\ y % 100 # 0) \/ y % 400 = 0

DaysInMonth(y, m) ==
    IF m = 2 THEN (IF IsLeapYear(y) THEN 29 ELSE 28)
    ELSE IF m \in {4, 6, 9, 11} THEN 30 ELSE 31

ParseDate(s) ==
    LET y == ScanNumeric(s, 4, TRUE)
        l1 == ScanLiteral(y.rest, ".")
        m == ScanNumeric(l1.rest, 2, FALSE)
        l2 == ScanLiteral(m.rest, ".")
        d == ScanNumeric(l2.rest, 2, FALSE)
    IN IF /\ y.ok /\ l1.ok /\ m.ok /\ l2.ok /\ d.ok
          /\ d.rest = <<>>
          /\ m.val \in 1..12
          /\ d.val >= 1 /\ d.val <= DaysInMonth(y.val, m.val)
       THEN [ok |-> TRUE, nums |-> <<y.val, m.val, d.val>>]
       ELSE [ok |-> FALSE, nums |-> <<>>]

\* with_zone is TRUE for the format "%H:%M:%S %Z"
ParseTime(s, with_zone) ==
    LET h == ScanNumeric(s, 2, FALSE)
        l1 == ScanLiteral(h.rest, ":")
        m == ScanNumeric(l1.rest, 2, FALSE)
        l2 == ScanLiteral(m.rest, ":")
        sec == ScanNumeric(l2.rest, 2, FALSE)
        rest == IF with_zone THEN SkipNonSpace(trim_start(sec.rest)) ELSE sec.rest
    IN IF /\ h.ok /\ l1.ok /\ m.ok /\ l2.ok /\ sec.ok
          /\ rest = <<>>
          /\ h.val <= 23 /\ m.val <= 59 /\ sec.val <= 60
       THEN [ok |-> TRUE, nums |-> <<h.val, m.val, sec.val>>]
       ELSE [ok |-> FALSE, nums |-> <<>>]

(***************************************************************************)
(* impl TryFrom<&str> for Tag.                                             *)
(***************************************************************************)
\* the match of lines 86-120 on (data.0, data.1.replace('"', ""))
MatchTag(key, data) ==
    IF key \in StringKeys THEN OkTag(VariantOf(key), data, <<>>)
    ELSE IF key \in {K_Date, K_UTCDate}
    THEN LET r == ParseDate(data)
         IN IF r.ok THEN OkTag(VariantOf(key), <<>>, r.nums) ELSE Panic
    ELSE IF key \in {K_WhiteElo, K_BlackElo}
    THEN LET r == ParseU16(data)
         IN IF r.ok THEN OkTag(VariantOf(key), <<>>, <<r.val>>) ELSE Panic
    ELSE IF key \in {K_WhiteRatingDiff, K_BlackRatingDiff}
    THEN LET r == ParseI16(data)
         IN IF r.ok THEN OkTag(VariantOf(key), <<>>, <<r.val>>) ELSE Panic
    ELSE IF key \in {K_EndTime, K_UTCTime}
    THEN LET r == ParseTime(data, key = K_EndTime)
         IN IF r.ok THEN OkTag(VariantOf(key), <<>>, r.nums) ELSE Panic
    ELSE UnknownTag(key, data)

TagTryFromSwapped(v) ==
    IF ~ends_with(v, "]") THEN NoClosingSquareBracket
    ELSE IF ~starts_with(v, "[") THEN NoOpeningSquareBracket
    ELSE LET inner == replace(replace(v, "["), "]")
             data == split_once(inner, " ")
         IN IF ~data.some THEN Panic
            ELSE MatchTag(data.before, replace(data.after, "\""))

\* Tag::try_from(value)
TagTryFrom(v) ==
    IF ~starts_with(v, "[") THEN NoOpeningSquareBracket
    ELSE IF ~ends_with(v, "]") THEN NoClosingSquareBracket
    ELSE LET inner == replace(replace(v, "["), "]")
             data == split_once(inner, " ")
         IN IF ~data.some THEN Panic
            ELSE MatchTag(data.before, replace(data.after, "\""))

(***************************************************************************)
(* impl From<(&str, &str)> for Move.                                       *)
(***************************************************************************)
White(chess_move) ==
    [kind |-> "Move", side |-> "White", text |-> chess_move]

Black(chess_move) ==
    [kind |-> "Move", side |-> "Black", text |-> chess_move]

MovePanic ==
    [kind |-> "Panic", side |-> "none", text |-> <<>>]

MoveFromSwapped(v) ==
    LET n == ParseU16(v[1])
    IN IF ~n.ok THEN MovePanic
       ELSE IF n.val % 2 = 0 THEN White(v[2]) ELSE Black(v[2])

\* Move::from(value): value.0 is the move-number text, value.1 the token
MoveFrom(v) ==
    LET n == ParseU16(v[1])
    IN IF ~n.ok THEN MovePanic
       ELSE IF n.val % 2 = 0 THEN Black(v[2]) ELSE White(v[2])

(***************************************************************************)
(* parse_tags, parse_moves and Pgn::new.                                   *)
(***************************************************************************)
RECURSIVE MapTryFrom(_)
\* .map(|line| Tag::try_from(line.as_ref())) over the lines left by the filter
MapTryFrom(ls) ==
    IF ls = <<>> THEN <<>>
    ELSE <<TagTryFrom(Head(ls))>> \o MapTryFrom(Tail(ls))

\* .collect(): the Vec of the results, unless a try_from panicked on the
\* way, which unwinds out of the whole pass
Collect(results) ==
    IF \E i \in 1..Len(results) : results[i].kind = "Panic"
    THEN [panic |-> TRUE, tags |-> <<>>]
    ELSE [panic |-> FALSE, tags |-> results]

ParseTagsUnfiltered(ls) ==
    Collect(MapTryFrom(ls))

\* parse_tags(lines)
parse_tags(ls) ==
    Collect(MapTryFrom(SelectSeq(ls, LAMBDA line : starts_with(line, "["))))

RECURSIVE join(_, _)
\* v.join(sep)
join(v, sep) ==
    IF v = <<>> THEN <<>>
    ELSE IF Len(v) = 1 THEN v[1]
    ELSE v[1] \o sep \o join(Tail(v), sep)

\* the tail of parse_moves, from line 150 on: the result of the split is
\* never used, the joined line is printed and VecDeque::new() is returned,
\* whatever the movetext is
SplitAndPrint(line) ==
    [line |-> line, moves |-> <<>>]

\* parse_moves(line)
parse_moves(ls) ==
    SplitAndPrint(join(SelectSeq(ls, LAMBDA l : ~starts_with(l, "[") /\ l # <<>>),
                       <<" ">>))

NoPgn ==
    [kind |-> "None", tags |-> <<>>, moves |-> <<>>]

\* Ok(Self { tags, moves }) of lines 59-62: tags is evaluated first, and a
\* panic of parse_tags leaves parse_moves unrun and nothing printed
Assemble(t, m) ==
    IF t.panic
    THEN [pgn |-> [kind |-> "Panic", tags |-> <<>>, moves |-> <<>>], out |-> <<>>]
    ELSE [pgn |-> [kind |-> "Ok", tags |-> t.tags, moves |-> m.moves],
          out |-> <<m.line>>]

\* Pgn::new(path): the value returned (pgn) and the lines printed (out)
PgnNewRun(ok, ls) ==
    IF ~ok
    THEN [pgn |-> [kind |-> "IoErr", tags |-> <<>>, moves |-> <<>>], out |-> <<>>]
    ELSE Assemble(parse_tags(ls), parse_moves(ls))

(***************************************************************************)
(* The inputs the operations are run on.                                   *)
(***************************************************************************)
BoundedSeq(S, n) ==
    UNION {[1..k -> S] : k \in 0..n}

\* sample texts, character by character
D20220514 ==
    <<"2","0","2","2",".","0","5",".","1","4">>

D2024_2_29 ==
    <<"2","0","2","4",".","2",".","2","9">>

D20221301 ==
    <<"2","0","2","2",".","1","3",".","0","1">>

D20220230 ==
    <<"2","0","2","2",".","0","2",".","3","0">>

T123005 ==
    <<"1","2",":","3","0",":","0","5">>

T123005UTC ==
    <<"1","2",":","3","0",":","0","5"," ","U","T","C">>

T250000 ==
    <<"2","5",":","0","0",":","0","0">>

N1500 ==
    <<"1","5","0","0">>

N65535 ==
    <<"6","5","5","3","5">>

N65536 ==
    <<"6","5","5","3","6">>

NM12 ==
    <<"-","1","2">>

NP7 ==
    <<"+","7">>

NM32768 ==
    <<"-","3","2","7","6","8">>

NM32769 ==
    <<"-","3","2","7","6","9">>

ABC ==
    <<"a","b","c">>

TOK_e4 ==
    <<"e","4">>

TOK_c6 ==
    <<"c","6">>

TOK_Nf3 ==
    <<"N","f","3">>

TOK_exd5 ==
    <<"e","x","d","5">>

TOK_d5 ==
    <<"d","5">>

TOK_Qh5 ==
    <<"Q","h","5","+">>

TXT_Test ==
    <<"T","e","s","t">>

L_Event ==
    <<"[","E","v","e","n","t"," ","\"","T","e","s","t","\"","]">>

L_White ==
    <<"[","W","h","i","t","e"," ","\"","A","\"","]">>

L_Black ==
    <<"[","B","l","a","c","k"," ","\"","B","\"","]">>

L_Movetext ==
    <<"1","."," ","e","4"," ","c","6"," ","2","."," ","N","f","3"," ","d","5">>

L_Dangling ==
    <<"1","."," ","e","4"," ","c","6"," ","2","."," ">>

L_NoSpace ==
    <<"[","F","o","o","]">>

L_BadElo ==
    <<"[","W","h","i","t","e","E","l","o"," ","\"","a","b","c","\"","]">>

L_NoClosing ==
    <<"[","E","v","e","n","t"," ","\"","x","\"">>

L_Unknown ==
    <<"[","F","o","o"," ","\"","b","a","r","\"","]">>

K_Eco ==
    <<"E","c","o">>

K_Foo ==
    <<"F","o","o">>

CodeKeys ==
    StringKeys \cup {K_Date, K_UTCDate, K_WhiteElo, K_BlackElo, K_WhiteRatingDiff,
                     K_BlackRatingDiff, K_EndTime, K_UTCTime}

KeyPool ==
    CodeKeys \cup {K_Eco, K_Foo, <<>>}

\* free-text bodies: a letter, a space, a bracket and a quote in every order
TextBodies ==
    BoundedSeq({"a", " ", "]", "\""}, MaxBody)

ValidDates ==
    {D20220514, D2024_2_29}

ValidTimes ==
    {T123005}

ZonedTimes ==
    {T123005UTC}

ValidU16 ==
    {N1500, N65535, NP7}

ValidI16 ==
    {N1500, NM12, NP7, NM32768}

TypedBodies ==
    ValidDates \cup ValidTimes \cup ZonedTimes \cup ValidU16 \cup ValidI16
    \cup {D20221301, D20220230, T250000, N65536, NM32769, ABC}

Bodies ==
    TextBodies \cup TypedBodies

ValuePool ==
    Bodies \cup {<<"\"">> \o b \o <<"\"">> : b \in Bodies}

TagLines ==
    {open \o key \o sep \o val \o close :
        open \in {<<>>, <<"[">>}, key \in KeyPool, sep \in {<<>>, <<" ">>},
        val \in ValuePool, close \in {<<>>, <<"]">>}}

DigitPool ==
    {"1", "2", "3", "4", "5", "6"}

MoveTokens ==
    {TOK_e4, TOK_c6, TOK_Nf3, TOK_exd5, TOK_Qh5}

LinePool ==
    {L_Event, L_White, L_Black, <<>>, L_Movetext, L_Dangling, L_NoSpace,
     L_BadElo, L_NoClosing, L_Unknown}

RoundTripLines ==
    <<L_Event, L_White, L_Black, <<>>, L_Movetext>>

FileInputs ==
    BoundedSeq(LinePool, MaxLines) \cup {RoundTripLines}

(***************************************************************************)
(* The state machines: one operation is applied to one drawn input.        *)
(***************************************************************************)
NoTagResult ==
    [kind |-> "None", name |-> "none", key |-> <<>>, text |-> <<>>, nums |-> <<>>]

NoMove ==
    [kind |-> "None", side |-> "none", text |-> <<>>]

IdleTag ==
    value = <<>> /\ tag_result = NoTagResult

IdleMove ==
    move_value = <<<<>>, <<>>>> /\ move_result = NoMove

IdlePgn ==
    file_ok = TRUE /\ lines = <<>> /\ pgn = NoPgn /\ stdout = <<>>

\* Pgn::new on a file that may fail to open
Init ==
    /\ pc = "ready"
    /\ file_ok \in BOOLEAN
    /\ lines \in FileInputs
    /\ pgn = NoPgn
    /\ stdout = <<>>
    /\ IdleTag
    /\ IdleMove

\* the caller receives r.pgn and the terminal r.out
Returns(r) ==
    /\ pgn' = r.pgn
    /\ stdout' = stdout \o r.out

PgnNew ==
    /\ pc = "ready"
    /\ Returns(PgnNewRun(file_ok, lines))
    /\ pc' = "done"
    /\ UNCHANGED <<value, tag_result, move_value, move_result, file_ok, lines>>

Next ==
    PgnNew

Spec ==
    Init /\ [][Next]_vars

\* Tag::try_from on one line
InitTag ==
    /\ pc = "ready"
    /\ value \in TagLines
    /\ tag_result = NoTagResult
    /\ IdleMove
    /\ IdlePgn

TryFrom ==
    /\ pc = "ready"
    /\ tag_result' = TagTryFrom(value)
    /\ pc' = "done"
    /\ UNCHANGED <<value, move_value, move_result, file_ok, lines, pgn, stdout>>

NextTag ==
    TryFrom

SpecTag ==
    InitTag /\ [][NextTag]_vars

\* Move::from on one (number text, token) pair
InitMove ==
    /\ pc = "ready"
    /\ move_value \in BoundedSeq(DigitPool, MaxDigits) \X MoveTokens
    /\ move_result = NoMove
    /\ IdleTag
    /\ IdlePgn

From ==
    /\ pc = "ready"
    /\ move_result' = MoveFrom(move_value)
    /\ pc' = "done"
    /\ UNCHANGED <<value, tag_result, move_value, file_ok, lines, pgn, stdout>>

NextMove ==
    From

SpecMove ==
    InitMove /\ [][NextMove]_vars

(***************************************************************************)
(* What the claims speak of, stated without the decoder: the shape of a    *)
(* tag line and the reading of its parts.                                  *)
(***************************************************************************)
\* the line [Key "Value"]
WellFormedLine(key, v) ==
    <<"[">> \o key \o <<" ", "\"">> \o v \o <<"\"", "]">>

\* the eighteen keys of the data model, each written as its name there
ClaimStringKeys ==
    {K_Event, K_Site, K_Round, K_Result, K_Annotator, K_Variant, K_TimeControl,
     K_Opening, K_Termination, K_Eco}

TypedKeys ==
    {K_Date, K_UTCDate, K_EndTime, K_UTCTime, K_WhiteElo, K_BlackElo,
     K_WhiteRatingDiff, K_BlackRatingDiff}

ClaimKeys ==
    ClaimStringKeys \cup TypedKeys

ClaimVariant(key) ==
    IF key = K_Eco THEN "Eco" ELSE VariantOf(key)

\* the values that are well-formed for a key: any text without a quote for
\* a free-text key, a date, a time or an integer in range for a typed key
WellFormedValues(key) ==
    IF key \in ClaimStringKeys
    THEN {b \in TextBodies : \A i \in 1..Len(b) : b[i] # "\""}
    ELSE IF key \in {K_Date, K_UTCDate} THEN ValidDates
    ELSE IF key = K_EndTime THEN ValidTimes \cup ZonedTimes
    ELSE IF key = K_UTCTime THEN ValidTimes
    ELSE IF key \in {K_WhiteElo, K_BlackElo} THEN ValidU16
    ELSE ValidI16

\* the typed reading of each well-formed sample
TypedReading(v) ==
    CASE v = D20220514 -> <<2022, 5, 14>>
      [] v = D2024_2_29 -> <<2024, 2, 29>>
      [] v = T123005 -> <<12, 30, 5>>
      [] v = T123005UTC -> <<12, 30, 5>>
      [] v = N1500 -> <<1500>>
      [] v = N65535 -> <<65535>>
      [] v = NP7 -> <<7>>
      [] v = NM12 -> <<0 - 12>>
      [] v = NM32768 -> <<0 - 32768>>
      [] OTHER -> <<>>

\* whether v fails the typed conversion of key
ConversionFails(key, v) ==
    IF key \in {K_Date, K_UTCDate} THEN ~ParseDate(v).ok
    ELSE IF key \in {K_EndTime, K_UTCTime} THEN ~ParseTime(v, key = K_EndTime).ok
    ELSE IF key \in {K_WhiteElo, K_BlackElo} THEN ~ParseU16(v).ok
    ELSE ~ParseI16(v).ok

WellBracketed(line) ==
    starts_with(line, "[") /\ ends_with(line, "]")

\* the text between the brackets of a well-bracketed line
Inner(line) ==
    SubSeq(line, 2, Len(line) - 1)

\* the key text: up to the first whitespace
KeyText(line) ==
    LET in == Inner(line)
        n == Cardinality({i \in 1..Len(in) : \A j \in 1..i : in[j] # " "})
    IN SubSeq(in, 1, n)

RECURSIVE StripQuotes(_)
\* the surrounding quote characters removed
StripQuotes(s) ==
    IF s # <<>> /\ Head(s) = "\"" THEN StripQuotes(Tail(s))
    ELSE IF s # <<>> /\ s[Len(s)] = "\"" THEN StripQuotes(SubSeq(s, 1, Len(s) - 1))
    ELSE s

\* the raw value: what follows the whitespace run after the key
RawValue(line) ==
    LET in == Inner(line)
    IN trim_start(SubSeq(in, Len(KeyText(line)) + 1, Len(in)))

\* the indices of the lines that start with '[', and the k-th of them
TagLineIndices(ls) ==
    {i \in 1..Len(ls) : starts_with(ls[i], "[")}

NthTagLine(ls, k) ==
    CHOOSE i \in TagLineIndices(ls) :
        Cardinality({j \in TagLineIndices(ls) : j < i}) = k - 1

IsOddText(n) ==
    n[Len(n)] \in {"1", "3", "5", "7", "9"}

(***************************************************************************)
(* The claims.                                                             *)
(***************************************************************************)

\* C1: every line [Key "Value"] whose Key is one of the eighteen known keys
\* and whose Value is well-formed for it decodes to Ok with the variant of
\* that key, and the payload is Value itself: only the surrounding quotes
\* are removed.
C1_KnownTagDecodes ==
    pc = "done" =>
        \A key \in ClaimKeys : \A v \in WellFormedValues(key) :
            value = WellFormedLine(key, v) =>
                /\ tag_result.kind = "Ok"
                /\ tag_result.name = ClaimVariant(key)
                /\ key \in ClaimStringKeys => tag_result.text = v
                /\ key \in TypedKeys => tag_result.nums = TypedReading(v)

\* C2: a line that does not start with '[' gives NoOpeningSquareBracket
\* (also when it does not end with ']'), a line that starts with '[' and
\* does not end with ']' gives NoClosingSquareBracket, and a line with both
\* brackets gives neither.
C2_BracketErrors ==
    pc = "done" =>
        /\ ~starts_with(value, "[") => tag_result = NoOpeningSquareBracket
        /\ starts_with(value, "[") /\ ~ends_with(value, "]")
              => tag_result = NoClosingSquareBracket
        /\ WellBracketed(value)
              => tag_result \notin {NoOpeningSquareBracket, NoClosingSquareBracket}

\* C2 happens: a line with an opening and no closing bracket was decoded
C2_Witness ==
    /\ pc = "done"
    /\ starts_with(value, "[") /\ ~ends_with(value, "]")
    /\ Len(value) > 1
    /\ tag_result = NoClosingSquareBracket

\* C3: a line with both brackets whose key is not a recognized key gives
\* UnknownTag carrying exactly the key text of the line and the
\* quote-stripped raw value.
C3_UnknownKeyReported ==
    pc = "done" =>
        (WellBracketed(value) /\ KeyText(value) \notin CodeKeys
            => tag_result = UnknownTag(KeyText(value), StripQuotes(RawValue(value))))

C5_RoundTrip ==
    pc = "done" /\ file_ok /\ lines = RoundTripLines =>
        /\ pgn.kind = "Ok"
        /\ Len(pgn.tags) = 3
        /\ \A i \in 1..Len(pgn.tags) : pgn.tags[i].kind = "Ok"
        /\ pgn.moves = <<White(TOK_e4), Black(TOK_c6), White(TOK_Nf3), Black(TOK_d5)>>

\* C6: a well-bracketed line with a typed key whose value fails its
\* conversion gives a recoverable error value, never a panic.
C6_BadTypedValueIsAnError ==
    pc = "done" =>
        \A key \in TypedKeys : \A v \in Bodies :
            value = WellFormedLine(key, v) /\ ConversionFails(key, v)
                => tag_result.kind = "Err"

\* C7: whatever tag lines and movetext lines the file holds, Pgn::new fails
\* only when the file cannot be read; the half-moves are those of the
\* movetext lines alone and the tag results those of the tag lines alone.
C7_PassesIndependent ==
    pc = "done" =>
        /\ pgn.kind = "IoErr" <=> ~file_ok
        /\ file_ok =>
              /\ pgn.kind = "Ok"
              /\ pgn.moves =
                    parse_moves(SelectSeq(lines, LAMBDA l : ~starts_with(l, "["))).moves
              /\ pgn.tags =
                    parse_tags(SelectSeq(lines, LAMBDA l : starts_with(l, "["))).tags

\* C8: a movetext ending in a bare move-number marker, "1. e4 c6 2. ", is
\* tokenized without a crash and the half-moves of its other segment,
\* White(e4) and Black(c6), are still produced in play order.
C8_DanglingMarkerSkipped ==
    pc = "done" /\ file_ok /\ lines = <<L_Dangling>> =>
        /\ pgn.kind = "Ok"
        /\ Len(pgn.moves) >= 2
        /\ SubSeq(pgn.moves, 1, 2) = <<White(TOK_e4), Black(TOK_c6)>>

\* C10: the tag results built by parse_tags have one entry for each line
\* that starts with '[' and none for any other line, in line order, the
\* k-th entry being Tag::try_from of the k-th such line; no entry is
\* NoOpeningSquareBracket.
C10_TagsFollowTagLines ==
    pc = "done" /\ pgn.kind = "Ok" =>
        /\ Len(pgn.tags) = Cardinality(TagLineIndices(lines))
        /\ \A k \in 1..Len(pgn.tags) :
              /\ pgn.tags[k] = TagTryFrom(lines[NthTagLine(lines, k)])
              /\ pgn.tags[k] # NoOpeningSquareBracket

\* C10 happens: a file with a movetext line, an unclosed tag
\* and a good tag was parsed
C10_Witness ==
    /\ pc = "done"
    /\ lines = <<L_Movetext, L_NoClosing, L_Event>>
    /\ pgn.kind = "Ok"
    /\ pgn.tags = <<NoClosingSquareBracket, OkTag("Event", TXT_Test, <<>>)>>

====
